---- MODULE Spec2Model ----
(***************************************************************************)
(* gowfs: the WebHDFS client core (configuration.go, fs.go).               *)
(*                                                                         *)
(* The repository carries two variants of each file.  The first fs.go      *)
(* (lines 1-155) checks the HTTP status in requestHdfsData and has no      *)
(* authentication; the second (lines 157-358) decodes the body whatever    *)
(* the status and adds the Knox handshake with its background refresh.     *)
(* The variable `variant` says which one the process was built from.       *)
(*                                                                         *)
(* Go strings are modelled as sequences of one-character strings, so that  *)
(* fmt.Sprintf, url.Parse, Values.Encode and p.Name[0] are computed        *)
(* character by character as the code computes them.                       *)
(***************************************************************************)
EXTENDS Integers, Sequences, FiniteSets, TLC

VARIABLES
    variant,    \* "status" (fs.go 1-155) or "knox" (fs.go 157-358)
    osUser,     \* what user.Current() yields in this process (cached by os/user)
    conf,       \* the caller's Configuration value
    fs,         \* the *FileSystem under construction / constructed
    jar,        \* fs.client.Jar: TRUE iff it holds JSESSIONID for the base URL
    cpc,        \* the calling goroutine's position
    ret,        \* what NewFileSystem returned
    rpc,        \* the refresh goroutine's position
    sleepLeft,  \* ticks left of the refresh goroutine's time.Sleep(time.Minute)
    sinceInit,  \* ticks since the synchronous handshake returned (history)
    inflight,   \* requests handed to the network and not yet answered
    lastAuth,   \* the last completed call of fs.auth (history)
    last,       \* the last completed dispatch (history)
    sent,       \* requests that reached the network (history, saturating)
    logged,     \* lines written by log.Printf in the refresh loop (saturating)
    fn,         \* the last direct call of a pure function (history)
    tasks,      \* refresh goroutines started by `go func()` (history)
    remote      \* the remote service's side of the session

vars == <<variant, osUser, conf, fs, jar, cpc, ret, rpc, sleepLeft, sinceInit,
          inflight, lastAuth, last, sent, logged, fn, tasks, remote>>

----------------------------------------------------------------------------
(* Bounds of the model. *)

\* History counters saturate here (they never block an action).
MaxCount == 3

----------------------------------------------------------------------------
(* Strings. *)

Str_http == <<"h", "t", "t", "p">>
Str_https == <<"h", "t", "t", "p", "s">>
WebHdfsVer == <<"/", "w", "e", "b", "h", "d", "f", "s", "/", "v", "1">>
Str_userNameQ == <<"?", "u", "s", "e", "r", ".", "n", "a", "m", "e", "=">>
Str_op == <<"o", "p">>
OP_LISTSTATUS == <<"L", "I", "S", "T", "S", "T", "A", "T", "U", "S">>
Str_owner == <<"o", "w", "n", "e", "r">>

\* The characters the model's strings are made of, in ASCII order.
AsciiOrder ==
    <<"&", ".", "/", "1", ":", "=", "?", "A", "I", "L", "S", "T", "U",
      "a", "b", "d", "e", "f", "h", "m", "n", "o", "p", "r", "s", "t", "u",
      "v", "w">>

CharRank(c) == CHOOSE i \in 1..Len(AsciiOrder) : AsciiOrder[i] = c

\* F applied to the value of x.  (An operator's arguments and LET
\* definitions are passed by name; a quantifier's variable holds a value,
\* so x is evaluated once.)
Bind(x, F(_)) == CHOOSE y \in {F(v) : v \in {x}} : TRUE

\* strings.Index(s, c) + 1, or 0 when c does not occur in s.
IndexOf(s0, c) ==
    Bind(s0, LAMBDA s :
        IF \E i \in 1..Len(s) : s[i] = c
        THEN CHOOSE i \in 1..Len(s) : s[i] = c /\ \A j \in 1..(i - 1) : s[j] # c
        ELSE 0)

HasPrefix(s, p) == Len(s) >= Len(p) /\ SubSeq(s, 1, Len(p)) = p

\* Go's string comparison a < b (bytewise lexicographic).
StrLess(a0, b0) ==
    Bind(<<a0, b0>>, LAMBDA ab :
        LET a == ab[1]
            b == ab[2]
            \* the first index at which a and b differ, if there is one within both
            common == IF Len(a) < Len(b) THEN Len(a) ELSE Len(b)
            differ == {i \in 1..common : a[i] # b[i]}
            first == CHOOSE i \in differ : \A j \in differ : i <= j
        IN  IF differ = {} THEN Len(a) < Len(b)
            ELSE CharRank(a[first]) < CharRank(b[first]))

----------------------------------------------------------------------------
(* Errors.  An error value is a record; NoErr is Go's nil error. *)

NoErr == [kind |-> "nil"]
ErrAddrNotSet == [kind |-> "Configuration namenode address not set."]
ErrTransport == [kind |-> "transport"]
ErrRead == [kind |-> "read"]
ErrJson == [kind |-> "json"]

----------------------------------------------------------------------------
(* net/url. *)

NoUrl == [Scheme |-> <<>>, Host |-> <<>>, Path |-> <<>>, RawQuery |-> <<>>]

\* url.Parse on strings of the form scheme ":" rest (no '#', no userinfo):
\* the scheme up to the first ':', the query after the first '?', and, when
\* the rest starts with "//", the authority up to the next '/'.
urlSplitAuthority(scheme, rest, query) ==
    Bind(SubSeq(rest, 3, Len(rest)), LAMBDA authRest :
    Bind(IndexOf(authRest, "/"), LAMBDA slash :
        IF HasPrefix(rest, <<"/", "/">>)
        THEN [Scheme |-> scheme,
              Host |-> IF slash = 0 THEN authRest ELSE SubSeq(authRest, 1, slash - 1),
              Path |-> IF slash = 0 THEN <<>> ELSE SubSeq(authRest, slash, Len(authRest)),
              RawQuery |-> query]
        ELSE [Scheme |-> scheme, Host |-> <<>>, Path |-> rest, RawQuery |-> query]))

urlSplitQuery(scheme, afterScheme) ==
    Bind(IndexOf(afterScheme, "?"), LAMBDA qm :
        IF qm = 0 THEN urlSplitAuthority(scheme, afterScheme, <<>>)
        ELSE Bind(SubSeq(afterScheme, 1, qm - 1), LAMBDA rest :
                urlSplitAuthority(scheme, rest,
                                  SubSeq(afterScheme, qm + 1, Len(afterScheme)))))

urlParse(raw0) ==
    Bind(raw0, LAMBDA raw :
    Bind(IndexOf(raw, ":"), LAMBDA colon :
    Bind(SubSeq(raw, colon + 1, Len(raw)), LAMBDA afterScheme :
        urlSplitQuery(SubSeq(raw, 1, colon - 1), afterScheme))))

\* One "key=value" piece of a query as the pair <<key, value>>.
queryPiece(piece) ==
    Bind(IndexOf(piece, "="), LAMBDA eq :
        IF eq = 0 THEN <<piece, <<>> >>
        ELSE <<SubSeq(piece, 1, eq - 1), SubSeq(piece, eq + 1, Len(piece))>>)

\* url.ParseQuery: the "key=value" pieces between '&', as a sequence of
\* <<key, value>> pairs in the order they appear (empty pieces are skipped).
RECURSIVE parseQuery(_)
parseQuery(q0) ==
    Bind(q0, LAMBDA q :
        IF q = <<>> THEN <<>>
        ELSE Bind(IndexOf(q, "&"), LAMBDA amp :
                Bind(IF amp = 0 THEN q ELSE SubSeq(q, 1, amp - 1), LAMBDA piece :
                Bind(IF amp = 0 THEN <<>> ELSE SubSeq(q, amp + 1, Len(q)), LAMBDA more :
                    IF piece = <<>> THEN parseQuery(more)
                    ELSE <<queryPiece(piece)>> \o parseQuery(more)))))

\* Values.Add for every entry of *params, in the order of the `range` loop.
valuesAdd(q, params) == q \o params

\* The keys of a Values, each once.
valuesKeys(q) == {q[i][1] : i \in 1..Len(q)}

\* The values under key k, in insertion order, each written "key=value".
encodeKey(q, k) ==
    LET at == {i \in 1..Len(q) : q[i][1] = k}
        nth(n) == CHOOSE i \in at : Cardinality({j \in at : j < i}) = n - 1
    IN  [n \in 1..Cardinality(at) |-> k \o <<"=">> \o q[nth(n)][2]]

\* strings.Join(pieces, "&").
RECURSIVE joinAmp(_)
joinAmp(pieces0) ==
    Bind(pieces0, LAMBDA pieces :
        IF pieces = <<>> THEN <<>>
        ELSE IF Len(pieces) = 1 THEN pieces[1]
        ELSE pieces[1] \o <<"&">> \o joinAmp(Tail(pieces)))

\* The pieces of Values.Encode: those of the least key first.
RECURSIVE encodeSorted(_, _)
encodeSorted(q, keys0) ==
    Bind(keys0, LAMBDA keys :
        IF keys = {} THEN <<>>
        ELSE Bind(CHOOSE x \in keys : \A y \in keys \ {x} : StrLess(x, y), LAMBDA k :
                encodeKey(q, k) \o encodeSorted(q, keys \ {k})))

\* Values.Encode: "key=value" joined by '&', sorted by key.  (The model's
\* keys and values hold no character that QueryEscape rewrites.)
valuesEncode(q0) == Bind(q0, LAMBDA q : joinAmp(encodeSorted(q, valuesKeys(q))))

----------------------------------------------------------------------------
(* configuration.go *)

\* user.Current(): the process's OS user; a failed lookup returns nil.
OsUserName == <<"r">>

\* The value of conf.User after GetNameNodeUrl's defaulting.  The lookup is
\* made only for an empty User; u.Username of a nil u panics.
defaultedUser(c, os) == IF Len(c.User) = 0 THEN os.name ELSE c.User

userLookupPanics(c, os) == Len(c.User) = 0 /\ ~os.ok

\* `&conf.Addr == nil`: the address of a field of the receiver is never nil.
addrIsNil(c) == FALSE

\* fmt.Sprintf("%s://%s%s%s", scheme, conf.Addr, WebHdfsVer, conf.BasePath)
\* and the appended "?user.name=" + conf.User: always in the first variant,
\* only for a non-empty User in the second.
nameNodeUrlStr(v, c) ==
    (IF c.EnableHTTPS THEN Str_https ELSE Str_http)
        \o <<":", "/", "/">> \o c.Addr \o WebHdfsVer \o c.BasePath
        \o (IF v = "status" \/ c.User # <<>> THEN Str_userNameQ \o c.User ELSE <<>>)

\* (conf *Configuration) GetNameNodeUrl(), both variants.  Returns the URL,
\* the error, whether the call panicked, and the receiver after the call.
GetNameNodeUrl(v, c, os) ==
    IF addrIsNil(c)
    THEN [url |-> NoUrl, err |-> ErrAddrNotSet, panic |-> FALSE, conf |-> c]
    ELSE IF userLookupPanics(c, os)
    THEN [url |-> NoUrl, err |-> NoErr, panic |-> TRUE, conf |-> c]
    ELSE Bind([c EXCEPT !.User = defaultedUser(c, os)], LAMBDA c2 :
            [url |-> urlParse(nameNodeUrlStr(v, c2)), err |-> NoErr,
             panic |-> FALSE, conf |-> c2])

----------------------------------------------------------------------------
(* fs.go: buildRequestUrl *)

\* A *Path is NilPath or a record holding Name.
NilPath == [nil |-> TRUE, Name |-> <<>>]
PathOf(name) == [nil |-> FALSE, Name |-> name]

\* u.Path after `if p != nil { ... }`.
appendPath(base, p) ==
    IF p.nil THEN base
    ELSE IF p.Name[1] = "/" THEN base \o p.Name
    ELSE base \o <<"/">> \o p.Name

\* The map behind *params: its entries, whatever order `range` yields them in.
ParamsMap(params) == {params[i] : i \in 1..Len(params)}

\* buildRequestUrl taking the Configuration by reference: the defaulting of
\* User inside GetNameNodeUrl reaches the caller's value.
buildRequestUrl_ByPointer(v, c, p, params, os) ==
    Bind(GetNameNodeUrl(v, c, os), LAMBDA g :
        IF g.panic
        THEN [url |-> NoUrl, err |-> NoErr, panic |-> TRUE,
              conf |-> g.conf, params |-> ParamsMap(params)]
        ELSE IF g.err # NoErr
        THEN [url |-> NoUrl, err |-> g.err, panic |-> FALSE,
              conf |-> g.conf, params |-> ParamsMap(params)]
        ELSE IF ~p.nil /\ Len(p.Name) = 0
        THEN [url |-> NoUrl, err |-> NoErr, panic |-> TRUE,
              conf |-> g.conf, params |-> ParamsMap(params)]
        ELSE [url |-> [g.url EXCEPT
                          !.Path = appendPath(g.url.Path, p),
                          !.RawQuery = valuesEncode(valuesAdd(parseQuery(g.url.RawQuery), params))],
              err |-> NoErr, panic |-> FALSE,
              conf |-> g.conf, params |-> ParamsMap(params)])

\* buildRequestUrl(conf, p, params), both variants; params holds the entries
\* of *params in the order the `range` loop yields them.  Besides the URL,
\* the error and whether the call panicked, the result holds the caller's
\* Configuration and the map behind params as they are after the call: conf
\* is passed by value, so GetNameNodeUrl's defaulting of User stays in the
\* callee's copy, and the map is only read.
buildRequestUrl(v, c, p, params, os) ==
    Bind(GetNameNodeUrl(v, c, os), LAMBDA g :
        IF g.panic
        THEN [url |-> NoUrl, err |-> NoErr, panic |-> TRUE,
              conf |-> c, params |-> ParamsMap(params)]
        ELSE IF g.err # NoErr
        THEN [url |-> NoUrl, err |-> g.err, panic |-> FALSE,
              conf |-> c, params |-> ParamsMap(params)]
        ELSE IF ~p.nil /\ Len(p.Name) = 0
        THEN [url |-> NoUrl, err |-> NoErr, panic |-> TRUE,   \* p.Name[0]: index out of range
              conf |-> c, params |-> ParamsMap(params)]
        ELSE [url |-> [g.url EXCEPT
                          !.Path = appendPath(g.url.Path, p),
                          !.RawQuery = valuesEncode(valuesAdd(parseQuery(g.url.RawQuery), params))],
              err |-> NoErr, panic |-> FALSE,
              conf |-> c, params |-> ParamsMap(params)])

----------------------------------------------------------------------------
(* fs.go: the response decoder *)

\* A response body as it is on the wire.  kind is "nil" (no slice), "empty"
\* (zero bytes), "syntax" (not JSON, such as a truncated {"Remote) or "json"
\* (a JSON object).  Of a JSON object the model keeps the member "boolean"
\* and the three members of "RemoteException"; each is JsonAbsent (the key
\* is missing), JsonMistyped (a value of another JSON type than the field's)
\* or the value as a string.
JsonAbsent == "<absent>"
JsonMistyped == "<mistyped>"

NilBody ==
    [kind |-> "nil", boolean |-> JsonAbsent, exception |-> JsonAbsent,
     message |-> JsonAbsent, javaClassName |-> JsonAbsent]
EmptyBody == [NilBody EXCEPT !.kind = "empty"]
SyntaxErrorBody == [NilBody EXCEPT !.kind = "syntax"]

\* The RemoteException type and the HdfsJsonData envelope (declared outside
\* fs.go), with their zero values.
ZeroRemoteException == [Exception |-> "", Message |-> "", JavaClassName |-> ""]
ZeroHdfsJsonData == [Boolean |-> FALSE, RemoteException |-> ZeroRemoteException]

\* The error value `jsonData.RemoteException` (RemoteException is an error).
RemoteExceptionErr(re) ==
    [kind |-> "RemoteException", Exception |-> re.Exception,
     Message |-> re.Message, JavaClassName |-> re.JavaClassName]

\* A string field after json.Unmarshal: a missing key leaves the zero value.
jsonString(w) == IF w = JsonAbsent THEN "" ELSE w

\* json.Unmarshal(data, &jsonData): an error on a syntax error (no input at
\* all is one: "unexpected end of JSON input") or on a value of the wrong
\* type; otherwise the struct, missing keys left zero.
jsonUnmarshal(b) ==
    IF b.kind \in {"nil", "empty", "syntax"}
       \/ JsonMistyped \in {b.boolean, b.exception, b.message, b.javaClassName}
    THEN [data |-> ZeroHdfsJsonData, err |-> ErrJson]
    ELSE [data |-> [Boolean |-> (b.boolean = "true"),
                    RemoteException |->
                        [Exception |-> jsonString(b.exception),
                         Message |-> jsonString(b.message),
                         JavaClassName |-> jsonString(b.javaClassName)]],
          err |-> NoErr]

\* makeHdfsData dropping the error of json.Unmarshal.
makeHdfsData_SwallowsJsonError(b) ==
    LET j == jsonUnmarshal(b)
    IN  IF b.kind \in {"nil", "empty"} \/ j.err # NoErr
        THEN [data |-> ZeroHdfsJsonData, err |-> NoErr]
        ELSE IF j.data.RemoteException.Exception # ""
        THEN [data |-> ZeroHdfsJsonData,
              err |-> RemoteExceptionErr(j.data.RemoteException)]
        ELSE [data |-> j.data, err |-> NoErr]

\* makeHdfsData looking at the success fields before the remote exception.
makeHdfsData_SuccessFirst(b) ==
    LET j == jsonUnmarshal(b)
    IN  IF b.kind \in {"nil", "empty"}
        THEN [data |-> ZeroHdfsJsonData, err |-> NoErr]
        ELSE IF j.err # NoErr
        THEN [data |-> ZeroHdfsJsonData, err |-> j.err]
        ELSE IF j.data.Boolean
        THEN [data |-> j.data, err |-> NoErr]
        ELSE IF j.data.RemoteException.Exception # ""
        THEN [data |-> ZeroHdfsJsonData,
              err |-> RemoteExceptionErr(j.data.RemoteException)]
        ELSE [data |-> j.data, err |-> NoErr]

\* makeHdfsData handing every body, the empty one too, to json.Unmarshal.
makeHdfsData_NoEmptyCheck(b) ==
    LET j == jsonUnmarshal(b)
    IN  IF j.err # NoErr
        THEN [data |-> ZeroHdfsJsonData, err |-> j.err]
        ELSE IF j.data.RemoteException.Exception # ""
        THEN [data |-> ZeroHdfsJsonData,
              err |-> RemoteExceptionErr(j.data.RemoteException)]
        ELSE [data |-> j.data, err |-> NoErr]

\* makeHdfsData(data), the same in both variants.
makeHdfsData(b) ==
    LET j == jsonUnmarshal(b)
    IN  IF b.kind \in {"nil", "empty"}
        THEN [data |-> ZeroHdfsJsonData, err |-> NoErr]
        ELSE IF j.err # NoErr
        THEN [data |-> ZeroHdfsJsonData, err |-> j.err]
        ELSE IF j.data.RemoteException.Exception # ""
        THEN [data |-> ZeroHdfsJsonData,
              err |-> RemoteExceptionErr(j.data.RemoteException)]
        ELSE [data |-> j.data, err |-> NoErr]

\* responseToHdfsData dropping the error of ioutil.ReadAll and decoding
\* what was read.
responseToHdfsData_IgnoresReadError(rsp) ==
    [data |-> makeHdfsData(rsp.body).data, err |-> makeHdfsData(rsp.body).err,
     steps |-> <<"read", "decode">>]

\* responseToHdfsData(rsp): ioutil.ReadAll, then makeHdfsData.  `steps` is
\* the sequence of steps the call went through.
responseToHdfsData(rsp) ==
    IF ~rsp.readOk
    THEN [data |-> ZeroHdfsJsonData, err |-> ErrRead, steps |-> <<"read">>]
    ELSE [data |-> makeHdfsData(rsp.body).data, err |-> makeHdfsData(rsp.body).err,
          steps |-> <<"read", "decode">>]

----------------------------------------------------------------------------
(* fs.go: the dispatcher *)

StatusOK == 200

\* What client.Do hands back: a transport error (ok = FALSE) or a response
\* with its status, its body, whether reading the body succeeds, and what
\* its Set-Cookie headers do to the session cookie in the jar.
TransportFailure ==
    [ok |-> FALSE, status |-> 0, readOk |-> FALSE, body |-> NilBody, cookie |-> "none"]
Response(status, readOk, body, cookie) ==
    [ok |-> TRUE, status |-> status, readOk |-> readOk, body |-> body, cookie |-> cookie]

\* `rsp.StatusCode != http.StatusOK` of the status-checking variant.
badStatusCode(status) == status # StatusOK

\* requestHdfsData with the first variant's status check in both variants.
requestHdfsData_ChecksStatus(v, o) ==
    LET r == responseToHdfsData(o)
    IN  IF ~o.ok
        THEN [data |-> ZeroHdfsJsonData, err |-> ErrTransport,
              steps |-> <<>>, closed |-> FALSE]
        ELSE IF badStatusCode(o.status)
        THEN [data |-> ZeroHdfsJsonData,
              err |-> [kind |-> "bad status code", code |-> o.status],
              steps |-> <<"status">>, closed |-> FALSE]
        ELSE [data |-> r.data, err |-> r.err,
              steps |-> <<"status">> \o r.steps, closed |-> TRUE]

\* requestHdfsData(client, req) once client.Do has returned `o`.  closed:
\* whether rsp.Body.Close() has run when the call returns.
requestHdfsData(v, o) ==
    LET r == responseToHdfsData(o)
    IN  IF ~o.ok
        THEN [data |-> ZeroHdfsJsonData, err |-> ErrTransport,
              steps |-> <<>>, closed |-> FALSE]
        ELSE IF v = "status" /\ badStatusCode(o.status)
        THEN [data |-> ZeroHdfsJsonData,
              err |-> [kind |-> "bad status code", code |-> o.status],
              steps |-> <<"status">>, closed |-> FALSE]
        ELSE [data |-> r.data, err |-> r.err,
              steps |-> (IF v = "status" THEN <<"status">> ELSE <<>>) \o r.steps,
              closed |-> TRUE]

----------------------------------------------------------------------------
(* fs.go: the handshake *)

MaxSuccessStatus == 299

\* The jar after client.Do: a response's Set-Cookie headers are stored
\* whatever its status; a transport error stores nothing.
jarAfter(j, o) ==
    IF ~o.ok THEN j
    ELSE IF o.cookie = "set" THEN TRUE
    ELSE IF o.cookie = "expire" THEN FALSE
    ELSE j

\* `resp.StatusCode > 299`
authBadStatus(status) == status > MaxSuccessStatus

\* The loop over fs.client.Jar.Cookies(baseURL) looking for JSESSIONID.
hasSessionCookie(j) == j

\* (fs *FileSystem) auth() up to fs.client.Do(req), c being fs.Config: the
\* request URL, or the error it returns before anything is sent, and
\* fs.Config after buildRequestUrl(fs.Config, ...).  A request without a
\* host is refused by the transport before it touches the network.
authRequest(c, os) ==
    Bind(buildRequestUrl("knox", c, PathOf(<<"/">>), <<(<<Str_op, OP_LISTSTATUS>>)>>, os),
         LAMBDA b :
        IF b.panic THEN [panic |-> TRUE, err |-> NoErr, url |-> NoUrl, conf |-> b.conf]
        ELSE IF b.err # NoErr
        THEN [panic |-> FALSE, err |-> [kind |-> "buildRequestUrl"], url |-> NoUrl,
              conf |-> b.conf]
        ELSE IF b.url.Host = <<>>
        THEN [panic |-> FALSE, err |-> [kind |-> "fs.client.Get"], url |-> b.url,
              conf |-> b.conf]
        ELSE [panic |-> FALSE, err |-> NoErr, url |-> b.url, conf |-> b.conf])

\* Whether the response body auth() received is closed when auth() returns.
\* auth() has no resp.Body.Close(); on the bad-status path
\* httputil.DumpResponse(resp, true) reads the body to its end and closes
\* it (leaving a copy in memory), unless the read fails.
authClosesBody(o) == o.ok /\ authBadStatus(o.status) /\ o.readOk

\* auth() without the check of the jar.
authResult_NoCookieCheck(o, j) ==
    IF ~o.ok THEN [kind |-> "fs.client.Get"]
    ELSE IF authBadStatus(o.status) THEN [kind |-> "response of fs.client.Get"]
    ELSE NoErr

\* auth() from the return of fs.client.Do(req) on; j is the jar by then.
authResult(o, j) ==
    IF ~o.ok THEN [kind |-> "fs.client.Get"]
    ELSE IF authBadStatus(o.status) THEN [kind |-> "response of fs.client.Get"]
    ELSE IF hasSessionCookie(j) THEN NoErr
    ELSE [kind |-> "session cookie not found in jar"]

----------------------------------------------------------------------------
(* The inputs the model draws from. *)

StatusCodes == {101, 200, 201, 299, 300, 500}
CookieEffects == {"none", "set", "expire"}

OsUsers == {[ok |-> TRUE, name |-> OsUserName], [ok |-> FALSE, name |-> <<>>]}

ZeroConfig ==
    [Addr |-> <<>>, BasePath |-> <<>>, User |-> <<>>,
     EnableHTTPS |-> FALSE, EnableKnoxAuth |-> FALSE]

\* The first variant's Configuration has no EnableKnoxAuth field.
KnoxFlags(v) == IF v = "knox" THEN BOOLEAN ELSE {FALSE}

Configs(v) ==
    [Addr : {<<>>, <<"n">>}, BasePath : {<<>>, <<"/", "b">>, <<"/", "b", "/">>},
     User : {<<>>, <<"u">>}, EnableHTTPS : BOOLEAN, EnableKnoxAuth : KnoxFlags(v)]

SessionConfigs(v) ==
    {c \in Configs(v) : c.BasePath = <<>> /\ ~c.EnableHTTPS}

\* The params of an operation: op=LISTSTATUS.
OpParams == <<(<<Str_op, OP_LISTSTATUS>>)>>

SuccessBody == [EmptyBody EXCEPT !.kind = "json", !.boolean = "true"]
RemoteExceptionBody ==
    [EmptyBody EXCEPT !.kind = "json", !.exception = "FileNotFoundException",
                      !.message = "m", !.javaClassName = "c"]

\* Every body of the model.
Bodies ==
    {NilBody, EmptyBody, SyntaxErrorBody}
    \cup [kind : {"json"}, boolean : {JsonAbsent, "true", JsonMistyped},
          exception : {JsonAbsent, "", "FileNotFoundException"},
          message : {JsonAbsent, "m"}, javaClassName : {JsonAbsent, "c"}]

\* What the network answers to a handshake (auth never looks at the body
\* but to dump it into its error).
AuthOutcomes ==
    {TransportFailure}
    \cup {Response(s, TRUE, EmptyBody, c) : s \in StatusCodes, c \in CookieEffects}

\* What the network answers to a dispatch while a session runs.
SessionOutcomes ==
    {TransportFailure}
    \cup {Response(s, FALSE, EmptyBody, "none") : s \in {200, 500}}
    \cup {Response(s, TRUE, b, c) :
            s \in {200, 500}, b \in {EmptyBody, SuccessBody, RemoteExceptionBody},
            c \in CookieEffects}

SessionPaths == {NilPath, PathOf(<<>>), PathOf(<<"/">>), PathOf(<<"f">>)}

----------------------------------------------------------------------------
(* The state. *)

RefreshInterval == 2    \* time.Minute, in ticks of thirty seconds

Bump(n) == IF n < MaxCount THEN n + 1 ELSE n

NoAuth ==
    [by |-> "none", sentReq |-> FALSE, ok |-> FALSE, status |-> 0,
     jarHas |-> FALSE, err |-> NoErr, closed |-> FALSE]

NoDispatch ==
    [done |-> FALSE, sentReq |-> FALSE, panic |-> FALSE, o |-> TransportFailure,
     data |-> ZeroHdfsJsonData, err |-> NoErr, steps |-> <<>>, closed |-> FALSE]

NoRet == [done |-> FALSE, fs |-> FALSE, err |-> NoErr]

\* The remote service's session for this client.  expired: the session the
\* jar's cookie names has timed out on the server.  betweenRefreshes: it
\* did so while the refresh goroutine slept after a handshake that passed,
\* and no handshake has been sent since.  staleSent: the caller's last
\* request went to the network in that window.
NoRemote == [expired |-> FALSE, betweenRefreshes |-> FALSE, staleSent |-> FALSE]

\* The session after a response: a response that sets the session cookie
\* comes with a fresh session.
remoteAfter(r, o) ==
    IF o.ok /\ o.cookie = "set"
    THEN [r EXCEPT !.expired = FALSE, !.betweenRefreshes = FALSE]
    ELSE r
NoFn == [op |-> "none"]

Init ==
    /\ variant \in {"status", "knox"}
    /\ osUser \in OsUsers
    /\ conf \in SessionConfigs(variant)
    /\ fs = [alloc |-> FALSE, Config |-> ZeroConfig]
    /\ jar = FALSE
    /\ cpc = "start"
    /\ ret = NoRet
    /\ rpc = "none"
    /\ sleepLeft = 0
    /\ sinceInit = 0
    /\ inflight = [ctor |-> 0, refresh |-> 0, caller |-> 0]
    /\ lastAuth = NoAuth
    /\ last = NoDispatch
    /\ sent = 0
    /\ logged = 0
    /\ fn = NoFn
    /\ tasks = 0
    /\ remote = NoRemote

\* An unrecovered panic ends the process: every goroutine stops.
Alive == cpc # "panicked" /\ rpc # "panicked"

\* The goroutine started before the handshake's error is looked at.
startRefresh_EvenOnFailure(started) ==
    rpc' = "sleep" /\ sleepLeft' = RefreshInterval /\ tasks' = tasks + 1

\* A goroutine whose loop runs fs.auth() before it sleeps.
startRefresh_NoSleep(started) ==
    IF started
    THEN rpc' = "sleep" /\ sleepLeft' = 0 /\ tasks' = tasks + 1
    ELSE UNCHANGED <<rpc, sleepLeft, tasks>>

\* `go func() { for { time.Sleep(time.Minute); ... } }()`: the goroutine
\* starts its sleep.
startRefresh(started) ==
    IF started
    THEN rpc' = "sleep" /\ sleepLeft' = RefreshInterval /\ tasks' = tasks + 1
    ELSE UNCHANGED <<rpc, sleepLeft, tasks>>

----------------------------------------------------------------------------
(* NewFileSystem (fs.go 57-85 and 212-253). *)

\* Whether NewFileSystem runs the handshake: `if conf.EnableKnoxAuth`.
authEnabled(v, c) == v = "knox" /\ c.EnableKnoxAuth

\* The call up to the handshake's fs.client.Do; without auth mode, the
\* whole call.
NewFileSystem ==
    /\ cpc = "start"
    /\ \E a \in {authRequest(conf, osUser)} :
           /\ fs' = [alloc |-> TRUE,
                     Config |-> IF authEnabled(variant, conf) THEN a.conf ELSE conf]
           /\ IF ~authEnabled(variant, conf)
              THEN /\ cpc' = "ready"
                   /\ ret' = [done |-> TRUE, fs |-> TRUE, err |-> NoErr]
                   /\ UNCHANGED <<inflight, lastAuth, sent>>
              ELSE IF a.panic
              THEN /\ cpc' = "panicked"
                   /\ UNCHANGED <<ret, inflight, lastAuth, sent>>
              ELSE IF a.err # NoErr
              THEN /\ cpc' = "failed"
                   /\ ret' = [done |-> TRUE, fs |-> FALSE,
                              err |-> [kind |-> "fs.Auth", cause |-> a.err.kind]]
                   /\ lastAuth' = [by |-> "ctor", sentReq |-> FALSE, ok |-> FALSE,
                                   status |-> 0, jarHas |-> jar, err |-> a.err,
                                   closed |-> FALSE]
                   /\ UNCHANGED <<inflight, sent>>
              ELSE /\ cpc' = "auth"
                   /\ inflight' = [inflight EXCEPT !.ctor = @ + 1]
                   /\ sent' = Bump(sent)
                   /\ UNCHANGED <<ret, lastAuth>>
    /\ UNCHANGED <<variant, osUser, conf, jar, rpc, sleepLeft, sinceInit, last,
                   logged, fn, tasks, remote>>

\* The synchronous handshake's fs.client.Do returns `o`; NewFileSystem
\* returns, having started the refresh goroutine if the handshake passed.
NewFileSystemReturn(o) ==
    /\ cpc = "auth"
    /\ LET j == jarAfter(jar, o)
           e == authResult(o, j)
       IN  /\ jar' = j
           /\ lastAuth' = [by |-> "ctor", sentReq |-> TRUE, ok |-> o.ok,
                           status |-> o.status, jarHas |-> j, err |-> e,
                           closed |-> authClosesBody(o)]
           /\ IF e = NoErr
              THEN /\ cpc' = "ready"
                   /\ ret' = [done |-> TRUE, fs |-> TRUE, err |-> NoErr]
              ELSE /\ cpc' = "failed"
                   /\ ret' = [done |-> TRUE, fs |-> FALSE,
                              err |-> [kind |-> "fs.Auth", cause |-> e.kind]]
           /\ startRefresh(e = NoErr)
    /\ inflight' = [inflight EXCEPT !.ctor = @ - 1]
    /\ sinceInit' = 0
    /\ remote' = remoteAfter(remote, o)
    /\ UNCHANGED <<variant, osUser, conf, fs, last, sent, logged, fn>>

----------------------------------------------------------------------------
(* The refresh goroutine (fs.go 242-249). *)

\* A loop that returns at the first failed refresh.
afterRefresh_StopOnError(e) == IF e = NoErr THEN "sleep" ELSE "stopped"

\* Where the loop `for { time.Sleep(time.Minute); if err := fs.auth(); err
\* != nil { log.Printf(...) } }` goes once auth has returned e: it has no
\* break and no return.
afterRefresh(e) == "sleep"

\* A loop without its time.Sleep: the next handshake starts at once.
refreshDue_NoSleep == TRUE

\* A keep-alive woken by the session's expiry as well as by its timer.
refreshDue_OrOnExpiry == sleepLeft = 0 \/ remote.expired

\* time.Sleep(time.Minute) has returned: nothing else wakes the goroutine.
refreshDue == sleepLeft = 0

\* time.Sleep has returned; fs.auth() runs up to fs.client.Do.
RefreshSend ==
    /\ Alive
    /\ rpc = "sleep"
    /\ refreshDue
    /\ \E a \in {authRequest(fs.Config, osUser)} :
           /\ fs' = [fs EXCEPT !.Config = a.conf]
           /\ IF a.panic
              THEN /\ rpc' = "panicked"
                   /\ UNCHANGED <<sleepLeft, inflight, lastAuth, sent, logged, remote>>
              ELSE IF a.err # NoErr
              THEN /\ logged' = Bump(logged)
                   /\ lastAuth' = [by |-> "refresh", sentReq |-> FALSE, ok |-> FALSE,
                                   status |-> 0, jarHas |-> jar, err |-> a.err,
                                   closed |-> FALSE]
                   /\ rpc' = afterRefresh(a.err)
                   /\ sleepLeft' = IF afterRefresh(a.err) = "sleep"
                                   THEN RefreshInterval ELSE sleepLeft
                   /\ UNCHANGED <<inflight, sent, remote>>
              ELSE /\ rpc' = "auth"
                   /\ inflight' = [inflight EXCEPT !.refresh = @ + 1]
                   /\ sent' = Bump(sent)
                   /\ remote' = [remote EXCEPT !.betweenRefreshes = FALSE]
                   /\ UNCHANGED <<sleepLeft, lastAuth, logged>>
    /\ UNCHANGED <<variant, osUser, conf, jar, cpc, ret, sinceInit, last, fn, tasks>>

\* The refresh handshake's fs.client.Do returns `o`: an error is logged,
\* and the loop goes back to sleep either way.
RefreshReturn(o) ==
    /\ Alive
    /\ rpc = "auth"
    /\ LET j == jarAfter(jar, o)
           e == authResult(o, j)
       IN  /\ jar' = j
           /\ lastAuth' = [by |-> "refresh", sentReq |-> TRUE, ok |-> o.ok,
                           status |-> o.status, jarHas |-> j, err |-> e,
                           closed |-> authClosesBody(o)]
           /\ logged' = IF e # NoErr THEN Bump(logged) ELSE logged
           /\ rpc' = afterRefresh(e)
           /\ sleepLeft' = IF afterRefresh(e) = "sleep" THEN RefreshInterval ELSE sleepLeft
    /\ inflight' = [inflight EXCEPT !.refresh = @ - 1]
    /\ remote' = remoteAfter(remote, o)
    /\ UNCHANGED <<variant, osUser, conf, fs, cpc, ret, sinceInit, last, sent, fn,
                   tasks>>

\* Thirty seconds pass.
Tick ==
    /\ Alive
    /\ sleepLeft > 0 \/ (ret.done /\ sinceInit < RefreshInterval)
    /\ sleepLeft' = IF sleepLeft > 0 THEN sleepLeft - 1 ELSE 0
    /\ sinceInit' = IF ret.done /\ sinceInit < RefreshInterval
                    THEN sinceInit + 1 ELSE sinceInit
    /\ UNCHANGED <<variant, osUser, conf, fs, jar, cpc, ret, rpc, inflight,
                   lastAuth, last, sent, logged, fn, tasks, remote>>

----------------------------------------------------------------------------
(* A caller's operation on the constructed FileSystem: build the URL, make
   the request, requestHdfsData. *)

\* Up to client.Do inside requestHdfsData.
DispatchSend(p) ==
    /\ Alive
    /\ cpc = "ready"
    /\ \E b \in {buildRequestUrl(variant, fs.Config, p, OpParams, osUser)},
           r \in {requestHdfsData(variant, TransportFailure)} :
           /\ fs' = [fs EXCEPT !.Config = b.conf]
           /\ IF b.panic
              THEN /\ cpc' = "panicked"
                   /\ last' = [NoDispatch EXCEPT !.done = TRUE, !.panic = TRUE]
                   /\ UNCHANGED <<inflight, remote>>
              ELSE IF b.err # NoErr
              THEN /\ last' = [NoDispatch EXCEPT !.done = TRUE, !.err = b.err]
                   /\ UNCHANGED <<cpc, inflight, remote>>
              ELSE IF b.url.Host = <<>>
              THEN /\ last' = [NoDispatch EXCEPT !.done = TRUE, !.data = r.data,
                                                 !.err = r.err, !.steps = r.steps,
                                                 !.closed = r.closed]
                   /\ UNCHANGED <<cpc, inflight, remote>>
              ELSE /\ cpc' = "dispatch"
                   /\ inflight' = [inflight EXCEPT !.caller = @ + 1]
                   /\ remote' = [remote EXCEPT
                                    !.staleSent = remote.expired /\ remote.betweenRefreshes]
                   /\ UNCHANGED last
    /\ UNCHANGED <<variant, osUser, conf, jar, ret, rpc, sleepLeft, sinceInit,
                   lastAuth, sent, logged, fn, tasks>>

\* client.Do returns `o` and requestHdfsData runs to its return.
DispatchReturn(o) ==
    /\ Alive
    /\ cpc = "dispatch"
    /\ LET r == requestHdfsData(variant, o)
       IN  last' = [done |-> TRUE, sentReq |-> TRUE, panic |-> FALSE, o |-> o,
                    data |-> r.data, err |-> r.err, steps |-> r.steps,
                    closed |-> r.closed]
    /\ jar' = jarAfter(jar, o)
    /\ cpc' = "ready"
    /\ inflight' = [inflight EXCEPT !.caller = @ - 1]
    /\ remote' = remoteAfter(remote, o)
    /\ UNCHANGED <<variant, osUser, conf, fs, ret, rpc, sleepLeft, sinceInit,
                   lastAuth, sent, logged, fn, tasks>>

----------------------------------------------------------------------------
(* The session's specification. *)

Next ==
    \/ NewFileSystem
    \/ \E o \in AuthOutcomes : NewFileSystemReturn(o)
    \/ RefreshSend
    \/ \E o \in AuthOutcomes : RefreshReturn(o)
    \/ Tick
    \/ \E p \in SessionPaths : DispatchSend(p)
    \/ \E o \in SessionOutcomes : DispatchReturn(o)

Spec == Init /\ [][Next]_vars

\* The Go scheduler runs every runnable goroutine, time passes, and the
\* client's timeouts make every fs.client.Do return.
FairSpec ==
    /\ Spec
    /\ WF_vars(Tick)
    /\ WF_vars(RefreshSend)
    /\ WF_vars(\E o \in AuthOutcomes : RefreshReturn(o))

----------------------------------------------------------------------------
(* The session against a remote service whose sessions time out. *)

\* The remote service drops the session the jar's cookie names.  Nothing is
\* sent to the client.
SessionExpires ==
    /\ Alive
    /\ jar
    /\ ~remote.expired
    /\ remote' = [remote EXCEPT
                     !.expired = TRUE,
                     !.betweenRefreshes =
                         (rpc = "sleep" /\ lastAuth.by = "refresh" /\ lastAuth.err = NoErr)]
    /\ UNCHANGED <<variant, osUser, conf, fs, jar, cpc, ret, rpc, sleepLeft,
                   sinceInit, inflight, lastAuth, last, sent, logged, fn, tasks>>

\* A process of the second variant with auth mode enabled, a namenode
\* address and a user.
ExpiryInit ==
    /\ Init
    /\ variant = "knox"
    /\ osUser.ok
    /\ conf.EnableKnoxAuth /\ conf.Addr # <<>> /\ conf.User # <<>>

ExpiryNext == Next \/ SessionExpires

ExpirySpec == ExpiryInit /\ [][ExpiryNext]_vars

----------------------------------------------------------------------------
(* The URL functions called on their own: every Configuration, every path. *)

UrlPaths ==
    {NilPath, PathOf(<<>>), PathOf(<<"/">>), PathOf(<<"f">>), PathOf(<<"/", "f">>)}

\* The params of SETOWNER-like operations: two keys, which the `range` loop
\* yields in either order.
OwnerEntry == <<Str_owner, <<"u">> >>
OpEntry == <<Str_op, OP_LISTSTATUS>>

\* params is nil, or holds the operation code, or the operation code and
\* another key.
UrlParams == {<<>>, OpParams, <<OpEntry, OwnerEntry>>, <<OwnerEntry, OpEntry>>}

IdleSession ==
    /\ fs = [alloc |-> FALSE, Config |-> ZeroConfig]
    /\ jar = FALSE
    /\ cpc = "start"
    /\ ret = NoRet
    /\ rpc = "none"
    /\ sleepLeft = 0
    /\ sinceInit = 0
    /\ inflight = [ctor |-> 0, refresh |-> 0, caller |-> 0]
    /\ lastAuth = NoAuth
    /\ last = NoDispatch
    /\ sent = 0
    /\ logged = 0
    /\ fn = NoFn
    /\ tasks = 0
    /\ remote = NoRemote

UrlInit ==
    /\ variant \in {"status", "knox"}
    /\ osUser \in OsUsers
    /\ conf \in Configs(variant)
    /\ IdleSession

\* conf.GetNameNodeUrl() on the caller's Configuration: the receiver is a
\* pointer, so the defaulted User is stored in the caller's value.
CallGetNameNodeUrl ==
    /\ Alive
    /\ \E g \in {GetNameNodeUrl(variant, conf, osUser)} :
           /\ fn' = [op |-> "GetNameNodeUrl", conf0 |-> conf, url |-> g.url,
                     err |-> g.err, panic |-> g.panic]
           /\ conf' = g.conf
           /\ cpc' = IF g.panic THEN "panicked" ELSE cpc
    /\ UNCHANGED <<variant, osUser, fs, jar, ret, rpc, sleepLeft, sinceInit,
                   inflight, lastAuth, last, sent, logged, tasks, remote>>

\* buildRequestUrl(conf, p, params) with the caller's Configuration; params
\* is the order in which this call's `range` loop yields the map's entries.
\* fn keeps the map before and after the call.
CallBuildRequestUrl(p, params) ==
    /\ Alive
    /\ \E b \in {buildRequestUrl(variant, conf, p, params, osUser)} :
           /\ fn' = [op |-> "buildRequestUrl", conf0 |-> conf, p |-> p,
                     params |-> ParamsMap(params), paramsAfter |-> b.params,
                     url |-> b.url, err |-> b.err, panic |-> b.panic]
           /\ conf' = b.conf
           /\ cpc' = IF b.panic THEN "panicked" ELSE cpc
    /\ UNCHANGED <<variant, osUser, fs, jar, ret, rpc, sleepLeft,
                   sinceInit, inflight, lastAuth, last, sent, logged, tasks, remote>>

UrlNext ==
    \/ CallGetNameNodeUrl
    \/ \E p \in UrlPaths, params \in UrlParams : CallBuildRequestUrl(p, params)

UrlSpec == UrlInit /\ [][UrlNext]_vars

----------------------------------------------------------------------------
(* The second variant's session with a caller that also calls
   buildRequestUrl on its own Configuration. *)

PurePaths == {PathOf(<<"f">>)}
PureParams == {<<OpEntry, OwnerEntry>>, <<OwnerEntry, OpEntry>>}

PureInit == Init /\ variant = "knox"

PureNext ==
    \/ Next
    \/ \E p \in PurePaths, params \in PureParams : CallBuildRequestUrl(p, params)

PureSpec == PureInit /\ [][PureNext]_vars

----------------------------------------------------------------------------
(* The decoder and the dispatcher on every response. *)

\* What client.Do can return to requestHdfsData.
DecodeOutcomes ==
    {TransportFailure}
    \cup {Response(s, FALSE, EmptyBody, "none") : s \in StatusCodes}
    \cup {Response(s, TRUE, b, "none") : s \in StatusCodes, b \in Bodies}

DecodeInit ==
    /\ variant \in {"status", "knox"}
    /\ osUser = [ok |-> TRUE, name |-> OsUserName]
    /\ conf = ZeroConfig
    /\ IdleSession

\* makeHdfsData(data)
CallMakeHdfsData(b) ==
    /\ fn' = [op |-> "makeHdfsData", body |-> b, data |-> makeHdfsData(b).data,
              err |-> makeHdfsData(b).err]
    /\ UNCHANGED <<variant, osUser, conf, fs, jar, cpc, ret, rpc, sleepLeft,
                   sinceInit, inflight, lastAuth, last, sent, logged, tasks, remote>>

\* requestHdfsData(client, req) where client.Do returns `o`.
CallRequestHdfsData(o) ==
    /\ \E r \in {requestHdfsData(variant, o)} :
           fn' = [op |-> "requestHdfsData", o |-> o, data |-> r.data, err |-> r.err,
                  steps |-> r.steps, closed |-> r.closed]
    /\ UNCHANGED <<variant, osUser, conf, fs, jar, cpc, ret, rpc, sleepLeft,
                   sinceInit, inflight, lastAuth, last, sent, logged, tasks, remote>>

DecodeNext ==
    \/ \E b \in Bodies : CallMakeHdfsData(b)
    \/ \E o \in DecodeOutcomes : CallRequestHdfsData(o)

DecodeSpec == DecodeInit /\ [][DecodeNext]_vars

----------------------------------------------------------------------------
(* The properties. *)

SuccessRange == 200..299

\* NewFileSystem has returned a FileSystem built with auth mode enabled.
Constructed == ret.done /\ ret.fs /\ authEnabled(variant, conf)

\* C1: in the auth-enabled variant, when the synchronous handshake's
\* response has a success status and the jar then holds no JSESSIONID,
\* NewFileSystem returns an error and no FileSystem; a FileSystem is
\* returned only with the session cookie in the jar.
C1_NoCookieNoFileSystem ==
    /\ (/\ lastAuth.by = "ctor" /\ lastAuth.sentReq /\ lastAuth.ok
        /\ lastAuth.status \in SuccessRange /\ ~lastAuth.jarHas)
       => (ret.done /\ ~ret.fs /\ ret.err # NoErr /\ cpc = "failed")
    /\ (Constructed /\ lastAuth.by = "ctor") => lastAuth.jarHas

C1_Witness ==
    /\ authEnabled(variant, conf)
    /\ lastAuth.by = "ctor" /\ lastAuth.ok /\ lastAuth.status = 200 /\ ~lastAuth.jarHas
    /\ ret.done /\ ~ret.fs

\* A refresh handshake has returned an error in this step.
RefreshFailedStep == rpc = "auth" /\ rpc' # "auth" /\ lastAuth'.err # NoErr

\* C2: once NewFileSystem has succeeded with auth mode enabled, a refresh
\* handshake that fails is only logged: the step leaves the FileSystem and
\* what NewFileSystem returned as they are and puts the goroutine back to
\* sleep, the goroutine never leaves its loop, and, under fair scheduling,
\* for as long as the process lives a refresh handshake is sent again and
\* again, however many have failed.
C2_RefreshForever ==
    /\ [][RefreshFailedStep =>
            /\ fs' = fs /\ ret' = ret /\ conf' = conf
            /\ rpc' = "sleep" /\ sleepLeft' = RefreshInterval
            /\ logged' = Bump(logged)]_vars
    /\ [][rpc # "none" => rpc' \in {"sleep", "auth"}]_vars
    /\ [](Constructed => <>(rpc = "auth" \/ cpc = "panicked"))

C2_Witness ==
    /\ Constructed
    /\ logged = 2
    /\ lastAuth.by = "refresh" /\ lastAuth.err # NoErr
    /\ rpc = "auth"

\* C3: with auth mode enabled NewFileSystem calls fs.auth() once before it
\* returns: when it returns, that handshake has completed and at most one
\* request has been sent, a FileSystem is returned exactly if the handshake
\* passed, and otherwise the handshake's error is returned; a refresh
\* handshake is sent only after NewFileSystem returned a FileSystem and a
\* full interval has passed since.
C3_HandshakeBeforeReturn ==
    /\ [][(~ret.done /\ ret'.done /\ authEnabled(variant, conf)) =>
            /\ lastAuth'.by = "ctor"
            /\ inflight'.ctor = 0
            /\ sent' = (IF lastAuth'.sentReq THEN 1 ELSE 0)
            /\ ret'.fs <=> lastAuth'.err = NoErr
            /\ ~ret'.fs => (ret'.err.kind = "fs.Auth"
                            /\ ret'.err.cause = lastAuth'.err.kind)
            /\ inflight'.refresh = 0]_vars
    /\ [][inflight'.refresh > inflight.refresh =>
            Constructed /\ sinceInit >= RefreshInterval]_vars

C3_Witness ==
    /\ Constructed
    /\ sent = 2
    /\ inflight.refresh = 1
    /\ sinceInit = RefreshInterval

\* Whether json.Unmarshal rejects the body: it is not JSON, or a member has
\* the wrong type.
BodyMalformed(b) ==
    \/ b.kind = "syntax"
    \/ b.kind = "json"
       /\ JsonMistyped \in {b.boolean, b.exception, b.message, b.javaClassName}

\* Whether the body carries a remote exception: its exception attribute is
\* a non-empty string.
BodyHasRemoteException(b) ==
    b.kind = "json" /\ b.exception \notin {JsonAbsent, JsonMistyped, ""}

\* The failures of a dispatch: the transport's, the read's, the decoder's,
\* a remote exception and, where the status is checked, a status outside
\* the success range.
DispatchFailure(v, o) ==
    \/ ~o.ok
    \/ v = "status" /\ o.status \notin SuccessRange
    \/ ~o.readOk
    \/ BodyMalformed(o.body)
    \/ BodyHasRemoteException(o.body)

\* C4: every call of requestHdfsData returns a payload with a nil error or
\* the zero payload with an error, and every failure comes with an error.
C4_PayloadOrError ==
    fn.op = "requestHdfsData" =>
        /\ (fn.err = NoErr) \/ (fn.data = ZeroHdfsJsonData)
        /\ DispatchFailure(variant, fn.o) => (fn.err # NoErr /\ fn.data = ZeroHdfsJsonData)

C4_Witness ==
    /\ fn.op = "requestHdfsData"
    /\ fn.o.ok /\ fn.o.readOk /\ fn.o.body.kind = "syntax"
    /\ fn.err = ErrJson /\ fn.data = ZeroHdfsJsonData

\* C5, as claimed: the status-checking requestHdfsData fails with the bad
\* status code error, the body not decoded, exactly for the statuses
\* outside 200..299.
C5_BadStatusIffNot2xx ==
    (variant = "status" /\ fn.op = "requestHdfsData" /\ fn.o.ok) =>
        /\ (fn.o.status \notin SuccessRange) <=>
              (fn.err = [kind |-> "bad status code", code |-> fn.o.status])
        /\ (fn.o.status \in SuccessRange) => "read" \in {fn.steps[i] : i \in 1..Len(fn.steps)}
        /\ (fn.o.status \notin SuccessRange) => fn.steps = <<"status">>

\* C6: in the variant without the status check, what requestHdfsData
\* returns for a response is what it returns for the same response with
\* status 200; a 500 with a remote-exception body gives that exception.
C6_StatusIgnored ==
    (variant = "knox" /\ fn.op = "requestHdfsData" /\ fn.o.ok) =>
        /\ \E r \in {requestHdfsData("knox", [fn.o EXCEPT !.status = StatusOK])} :
              fn.data = r.data /\ fn.err = r.err
        /\ (fn.o.readOk /\ fn.o.body = RemoteExceptionBody) =>
              fn.err = [kind |-> "RemoteException",
                        Exception |-> "FileNotFoundException",
                        Message |-> "m", JavaClassName |-> "c"]

C6_Witness ==
    /\ variant = "knox" /\ fn.op = "requestHdfsData"
    /\ fn.o.ok /\ fn.o.status = 500 /\ fn.o.readOk /\ fn.o.body = RemoteExceptionBody
    /\ fn.err.kind = "RemoteException"

\* C7: for a body that json.Unmarshal accepts and whose exception attribute
\* is non-empty, makeHdfsData returns the remote exception (its class and
\* message as in the body) with the zero payload, success fields or not.
C7_RemoteExceptionWins ==
    (/\ fn.op = "makeHdfsData"
     /\ ~BodyMalformed(fn.body)
     /\ BodyHasRemoteException(fn.body)) =>
        /\ fn.err.kind = "RemoteException"
        /\ fn.err.Exception = fn.body.exception
        /\ fn.err.Message = (IF fn.body.message = JsonAbsent THEN "" ELSE fn.body.message)
        /\ fn.data = ZeroHdfsJsonData

C7_Witness ==
    /\ fn.op = "makeHdfsData"
    /\ fn.body.kind = "json" /\ fn.body.boolean = "true"
    /\ fn.body.exception = "FileNotFoundException" /\ fn.body.message = "m"
    /\ fn.err.kind = "RemoteException" /\ fn.data = ZeroHdfsJsonData

\* C8, as claimed: what makeHdfsData returns with a nil error holds no
\* populated remote exception (class, message and Java class name all
\* empty), and what it returns with a remote exception holds no success
\* field.
C8_OneVariantPopulated ==
    fn.op = "makeHdfsData" =>
        /\ fn.err = NoErr => fn.data.RemoteException = ZeroRemoteException
        /\ fn.err.kind = "RemoteException" => ~fn.data.Boolean

\* C9, as claimed: with an empty Addr, GetNameNodeUrl and buildRequestUrl
\* return the configuration error.
C9_EmptyAddrIsConfigError ==
    (fn.op \in {"GetNameNodeUrl", "buildRequestUrl"} /\ fn.conf0.Addr = <<>> /\ ~fn.panic)
        => fn.err = ErrAddrNotSet

\* C10, as claimed: auth returns an error for every response whose status
\* is outside 200..299, and nil only for a status inside it with the
\* session cookie in the jar.
C10_AuthFailsOutsideSuccessRange ==
    (lastAuth.by # "none" /\ lastAuth.sentReq /\ lastAuth.ok) =>
        /\ lastAuth.status \notin SuccessRange => lastAuth.err # NoErr
        /\ lastAuth.err = NoErr => (lastAuth.status \in SuccessRange /\ lastAuth.jarHas)

\* s without the '/' characters at its end.
RECURSIVE TrimTrailingSlashes(_)
TrimTrailingSlashes(s) ==
    IF s # <<>> /\ s[Len(s)] = "/" THEN TrimTrailingSlashes(SubSeq(s, 1, Len(s) - 1))
    ELSE s

\* s without the '/' characters at its start.
RECURSIVE TrimLeadingSlashes(_)
TrimLeadingSlashes(s) ==
    IF s # <<>> /\ s[1] = "/" THEN TrimLeadingSlashes(Tail(s))
    ELSE s

\* C11, as claimed: for every Configuration and every non-nil path, the
\* empty one included, buildRequestUrl neither panics nor returns an error,
\* and the URL's path is /webhdfs/v1, the base path, one '/' and the remote
\* path, with no second '/' at the joint.
C11_ExactlyOneSlash ==
    (fn.op = "buildRequestUrl" /\ ~fn.p.nil) =>
        /\ ~fn.panic
        /\ fn.err = NoErr
        /\ fn.url.Path = WebHdfsVer \o TrimTrailingSlashes(fn.conf0.BasePath)
                            \o <<"/">> \o TrimLeadingSlashes(fn.p.Name)

\* Two consecutive direct calls of buildRequestUrl with equal inputs.
SameInputsStep ==
    /\ fn.op = "buildRequestUrl" /\ fn'.op = "buildRequestUrl"
    /\ fn'.conf0 = fn.conf0 /\ fn'.p = fn.p /\ fn'.params = fn.params

\* C12: no step (a direct call of buildRequestUrl, a handshake, a dispatch)
\* changes the caller's Configuration, and the FileSystem's stored Config
\* stays the Configuration it was constructed with, the User field left
\* empty where it was empty; a direct call leaves the params map as it
\* was; and two calls with equal inputs return equal URLs and errors,
\* whatever order the map's entries are visited in.
C12_InputsUnchanged ==
    /\ [][conf' = conf]_vars
    /\ [](fs.alloc => fs.Config = conf)
    /\ [](fn.op = "buildRequestUrl" => fn.paramsAfter = fn.params)
    /\ [][SameInputsStep => (fn'.url = fn.url /\ fn'.err = fn.err)]_vars

\* The User was empty and defaulted inside the calls: a direct call, the
\* handshakes and a dispatch have all built their URL with the OS user's
\* name.
C12_Witness ==
    /\ conf.User = <<>> /\ fs.alloc /\ fs.Config.User = <<>>
    /\ fn.op = "buildRequestUrl" /\ ~fn.panic /\ fn.err = NoErr
    /\ fn.url.RawQuery = Str_op \o <<"=">> \o OP_LISTSTATUS \o <<"&">>
                            \o Str_owner \o <<"=", "u", "&">>
                            \o Tail(Str_userNameQ) \o OsUserName
    /\ lastAuth.by = "refresh" /\ lastAuth.sentReq
    /\ last.done /\ last.sentReq

\* Whether the body has no bytes: a nil slice or an empty one.
BodyIsEmpty(b) == b.kind \in {"nil", "empty"}

\* C13: makeHdfsData of a nil or zero-length body returns the zero
\* HdfsJsonData and a nil error, and so does requestHdfsData for a response
\* whose body is read as empty and whose status passes the check of the
\* variant that has one.
C13_EmptyBodyIsSuccess ==
    /\ (fn.op = "makeHdfsData" /\ BodyIsEmpty(fn.body)) =>
          (fn.data = ZeroHdfsJsonData /\ fn.err = NoErr)
    /\ (/\ fn.op = "requestHdfsData" /\ fn.o.ok /\ fn.o.readOk
        /\ BodyIsEmpty(fn.o.body)
        /\ variant = "status" => ~badStatusCode(fn.o.status)) =>
          (fn.data = ZeroHdfsJsonData /\ fn.err = NoErr)

C13_Witness ==
    /\ variant = "status" /\ fn.op = "requestHdfsData"
    /\ fn.o.ok /\ fn.o.status = StatusOK /\ fn.o.readOk /\ fn.o.body = EmptyBody
    /\ fn.steps = <<"status", "read", "decode">>
    /\ fn.data = ZeroHdfsJsonData /\ fn.err = NoErr

\* C14: the keep-alive is driven by its timer alone.  While the session has
\* expired and the goroutine's sleep is not over, no handshake is sent; a
\* caller that is ready can dispatch whether the session has expired or
\* not, and its request goes to the network without a handshake before it.
\* (The witness is the interleaving: the session expires after a refresh
\* handshake that passed, and the caller's request is sent before the next
\* one.)
C14_RefreshIsBestEffort ==
    /\ [][(remote.expired /\ rpc = "sleep" /\ sleepLeft > 0) =>
            (rpc' = "sleep" /\ inflight'.refresh = inflight.refresh)]_vars
    /\ []((Alive /\ cpc = "ready" /\ remote.expired) =>
            ENABLED DispatchSend(PathOf(<<"f">>)))
    /\ [][(cpc = "ready" /\ cpc' = "dispatch") =>
            /\ inflight'.caller = inflight.caller + 1
            /\ inflight'.refresh = inflight.refresh /\ inflight'.ctor = inflight.ctor
            /\ remote'.expired = remote.expired]_vars

C14_Witness ==
    /\ Constructed
    /\ lastAuth.by = "refresh" /\ lastAuth.sentReq /\ lastAuth.err = NoErr
    /\ rpc = "sleep" /\ sleepLeft > 0
    /\ remote.expired /\ remote.betweenRefreshes
    /\ cpc = "dispatch" /\ inflight.caller = 1 /\ remote.staleSent

\* The steps of a dispatch after client.Do, in the order of the code.
FullSteps(v) ==
    IF v = "status" THEN <<"status", "read", "decode">> ELSE <<"read", "decode">>

IsPrefix(a, b) == Len(a) <= Len(b) /\ SubSeq(b, 1, Len(a)) = a

\* The steps of s before the step named x (all of s if x is not in it).
StepsBefore(s, x) ==
    IF \E i \in 1..Len(s) : s[i] = x
    THEN SubSeq(s, 1, (CHOOSE i \in 1..Len(s) : s[i] = x) - 1)
    ELSE s

\* C15: the steps requestHdfsData went through are a prefix of (status
\* check,) read, decode; after a transport failure none was taken and the
\* transport's error is returned; after a failed read the call stops with
\* the read's error, nothing decoded; and a call that returns a nil error
\* went through every step.
C15_StepsInOrder ==
    fn.op = "requestHdfsData" =>
        /\ IsPrefix(fn.steps, FullSteps(variant))
        /\ ~fn.o.ok => (fn.steps = <<>> /\ fn.err = ErrTransport
                        /\ fn.data = ZeroHdfsJsonData)
        /\ (fn.o.ok /\ ~fn.o.readOk /\ (variant = "status" => ~badStatusCode(fn.o.status)))
              => (/\ fn.steps = StepsBefore(FullSteps(variant), "decode")
                  /\ fn.err = ErrRead /\ fn.data = ZeroHdfsJsonData)
        /\ fn.err = NoErr => fn.steps = FullSteps(variant)

C15_Witness ==
    /\ variant = "status" /\ fn.op = "requestHdfsData"
    /\ fn.o.ok /\ fn.o.status = StatusOK /\ ~fn.o.readOk
    /\ fn.steps = <<"status", "read">> /\ fn.err = ErrRead

\* A handshake request goes to the network in this step.
HandshakeSentStep ==
    inflight'.ctor > inflight.ctor \/ inflight'.refresh > inflight.refresh

\* C16: a handshake request is sent only with EnableKnoxAuth set; without
\* it no handshake is ever made and no refresh goroutine exists; and once
\* NewFileSystem has returned an error there is no refresh goroutine and
\* no further handshake.
C16_HandshakeOnlyWithAuth ==
    /\ [][HandshakeSentStep => conf.EnableKnoxAuth]_vars
    /\ [](~conf.EnableKnoxAuth =>
            (lastAuth = NoAuth /\ sent = 0 /\ tasks = 0 /\ rpc = "none"))
    /\ []((ret.done /\ ~ret.fs) =>
            (tasks = 0 /\ rpc = "none" /\ inflight.refresh = 0 /\ lastAuth.by = "ctor"))
    /\ [][(ret.done /\ ~ret.fs) =>
            (~HandshakeSentStep /\ sent' = sent /\ lastAuth' = lastAuth)]_vars

\* A construction whose handshake failed, a full interval later.
C16_Witness ==
    /\ conf.EnableKnoxAuth
    /\ ret.done /\ ~ret.fs
    /\ lastAuth.by = "ctor" /\ lastAuth.sentReq /\ lastAuth.err # NoErr
    /\ sinceInit = RefreshInterval
    /\ sent = 1 /\ tasks = 0 /\ rpc = "none"

\* C17: a FileSystem constructed with auth mode enabled has one refresh
\* goroutine; at most one refresh handshake is in flight; a refresh
\* handshake is sent only with none in flight and the goroutine's sleep
\* over, the sleep having been set to the full interval when the previous
\* handshake returned (or the goroutine started) and run down tick by tick.
\* (The witness has a caller's request in flight during a refresh
\* handshake.)
C17_OneSequentialRefresher ==
    /\ [](Constructed => tasks = 1)
    /\ [](tasks <= 1 /\ inflight.refresh <= 1)
    /\ [][inflight'.refresh > inflight.refresh =>
            (inflight.refresh = 0 /\ rpc = "sleep" /\ sleepLeft = 0 /\ rpc' = "auth")]_vars
    /\ [][(rpc # "sleep" /\ rpc' = "sleep") => sleepLeft' = RefreshInterval]_vars
    /\ [][(rpc = "sleep" /\ rpc' = "sleep" /\ sleepLeft' # sleepLeft) =>
            (sleepLeft' = sleepLeft - 1
             \/ (sleepLeft = 0 /\ sleepLeft' = RefreshInterval))]_vars

C17_Witness ==
    /\ Constructed /\ tasks = 1
    /\ lastAuth.by = "refresh" /\ lastAuth.sentReq
    /\ rpc = "auth" /\ inflight.refresh = 1
    /\ cpc = "dispatch" /\ inflight.caller = 1

\* C18, as claimed: when a dispatch or a handshake that received a response
\* has returned, the response's body is closed, whatever the path taken.
C18_BodiesClosed ==
    /\ (last.done /\ last.sentReq /\ last.o.ok) => last.closed
    /\ (lastAuth.by # "none" /\ lastAuth.sentReq /\ lastAuth.ok) => lastAuth.closed

====
